---------------------------- MODULE Spec2Model ----------------------------
(***************************************************************************)
(* Model of stevejuma/pkg: the lucenequery PEG parser (lucenequery.peg),   *)
(* and the SQL generator lucenequery/sql/generator.go.                     *)
(*                                                                         *)
(* Text is a sequence of one-character strings, so that the grammar's      *)
(* character classes and the generator's regular expressions act on the    *)
(* characters they act on in the program.                                  *)
(*                                                                         *)
(* Values of Go's interface{} are tagged records:                          *)
(*   [k |-> "nil"], [k |-> "bool", b], [k |-> "int", n],                   *)
(*   [k |-> "float", neg, ip, fd], [k |-> "str", s],                       *)
(*   [k |-> "wild", Prefix, Suffix, Term], [k |-> "list", items]           *)
(* and AST nodes are records tagged by type: "TermQuery", "RangeQuery",    *)
(* "BooleanExpression", "slice" ([]interface{}) and "nil".                 *)
(***************************************************************************)
EXTENDS Integers, Sequences, FiniteSets, TLC

VARIABLES
    src,    \* the text handed to Parse and ToSQL, or to Masks
    opt,    \* the ToSQLOptions
    pc,     \* "start", "parsed" (Parse returned), "done" (ToSQL returned),
            \* "masked" (Masks returned)
    ast,    \* the value Parse returned
    perr,   \* the error Parse returned, "" for none
    query,  \* the Query and error ToSQL returned
    calls,  \* the nodes the column handler was invoked with, in order
    got     \* the paths and the error Masks returned

vars == <<src, opt, pc, ast, perr, query, calls, got>>

----------------------------------------------------------------------------
(* Characters and text                                                     *)

\* v bound to a name: Op applied to v
With(v, Op(_)) == Op(v)

Digits == {"0", "1", "2", "3", "4", "5", "6", "7", "8", "9"}

DigitVal(c) ==
    CASE c = "0" -> 0 [] c = "1" -> 1 [] c = "2" -> 2 [] c = "3" -> 3
      [] c = "4" -> 4 [] c = "5" -> 5 [] c = "6" -> 6 [] c = "7" -> 7
      [] c = "8" -> 8 [] c = "9" -> 9

\* the grammar's whitespace class [ \t\r\n]
IsWs(c) == c \in {" ", "\t", "\r", "\n"}

\* the class \s of Go's regexp, and the white space strings.TrimSpace cuts
IsSpace(c) == c \in {" ", "\t", "\r", "\n", "\f"}

\* s[i..] starts with the literal w
Lit(s, i, w) ==
    /\ i >= 1
    /\ i + Len(w) - 1 <= Len(s)
    /\ \A k \in 1..Len(w) : s[i + k - 1] = w[k]

\* s[a..b], empty when b < a
Sub(s, a, b) == IF b < a THEN <<>> ELSE SubSeq(s, a, b)

RECURSIVE Flatten(_)
Flatten(ss) == IF ss = <<>> THEN <<>> ELSE Head(ss) \o Flatten(Tail(ss))

RECURSIVE SkipWs(_, _)
SkipWs(s, i) == IF i <= Len(s) /\ IsWs(s[i]) THEN SkipWs(s, i + 1) ELSE i

RECURSIVE SkipSpace(_, _)
SkipSpace(s, i) == IF i <= Len(s) /\ IsSpace(s[i]) THEN SkipSpace(s, i + 1) ELSE i

Max(S) == CHOOSE x \in S : \A y \in S : y <= x

\* literals of the program, as text
sAND == <<"A", "N", "D">>
sOR == <<"O", "R">>
sNOT == <<"N", "O", "T">>
sTO == <<"T", "O">>
sNull == <<"n", "u", "l", "l">>
sTrue == <<"t", "r", "u", "e">>
sFalse == <<"f", "a", "l", "s", "e">>
sStar == <<"*">>

----------------------------------------------------------------------------
(* Values and AST nodes (lucenequery.peg, the code block)                  *)

NilV == [k |-> "nil"]
BoolV(b) == [k |-> "bool", b |-> b]
IntV(n) == [k |-> "int", n |-> n]
FloatV(neg, ip, fd) == [k |-> "float", neg |-> neg, ip |-> ip, fd |-> fd]
StrV(s) == [k |-> "str", s |-> s]
ListV(items) == [k |-> "list", items |-> items]

WildCardQuery(prefix, suffix, term) ==
    [k |-> "wild", Prefix |-> prefix, Suffix |-> suffix, Term |-> term]

TermQuery(term, prefix, op, value) ==
    [type |-> "TermQuery", Term |-> term, Prefix |-> prefix, Op |-> op,
     Value |-> value]

RangeQuery(term, min, max, inclusive) ==
    [type |-> "RangeQuery", Term |-> term, Min |-> min, Max |-> max,
     Inclusive |-> inclusive]

BooleanExpression(op, args) ==
    [type |-> "BooleanExpression", Op |-> op, Args |-> args]

\* a []interface{} of nodes
Slice(items) == [type |-> "slice", items |-> items]

NilNode == [type |-> "nil"]

\* (q *WildCardQuery) Kind
WildKind(q) ==
    IF q.Term # <<>> THEN "any"
    ELSE IF q.Prefix # <<>> /\ q.Suffix # <<>> THEN "between"
    ELSE IF q.Prefix # <<>> THEN "prefix"
    ELSE IF q.Suffix # <<>> THEN "suffix"
    ELSE "wildcard"

\* fmt.Sprintf("%v", v) != "*": only the string "*" prints as "*"
PrintsStar(v) == v.k = "str" /\ v.s = sStar

HasMin(q) == q.Min # NilV /\ ~PrintsStar(q.Min)

HasMax(q) == q.Max # NilV /\ ~PrintsStar(q.Max)

\* (q *RangeQuery) Kind: "", "e", "gt", "gte", "lt", "lte" or "between"
Kind(q) ==
    With(HasMin(q), LAMBDA min :
    With(HasMax(q), LAMBDA max :
    With(IF min /\ ~max THEN "gt" ELSE IF max /\ ~min THEN "lt" ELSE "", LAMBDA kind :
        IF min /\ max THEN "between"
        ELSE IF q.Inclusive
             THEN (CASE kind = "gt" -> "gte" [] kind = "lt" -> "lte"
                     [] OTHER -> "e")
             ELSE kind)))

\* a Query that returns every term as it is
TermUnchanged(t) == t

\* (t *TermQuery) Query
TermToQuery(t) ==
    CASE t.Op = "gt" -> RangeQuery(t.Term, t.Value, StrV(sStar), FALSE)
      [] t.Op = "gte" -> RangeQuery(t.Term, t.Value, StrV(sStar), TRUE)
      [] t.Op = "lt" -> RangeQuery(t.Term, StrV(sStar), t.Value, FALSE)
      [] t.Op = "lte" -> RangeQuery(t.Term, StrV(sStar), t.Value, TRUE)
      [] OTHER -> t

RECURSIVE updateFieldName(_, _)
updateFieldName(v, name) ==
    CASE v.type = "slice" ->
           Slice([i \in 1..Len(v.items) |-> updateFieldName(v.items[i], name)])
      [] v.type = "TermQuery" ->
           IF v.Term = <<>> THEN [v EXCEPT !.Term = name] ELSE v
      [] v.type = "BooleanExpression" ->
           [v EXCEPT !.Args =
               [i \in 1..Len(v.Args) |-> updateFieldName(v.Args[i], name)]]
      [] OTHER -> v

\* toFlatSlice
toFlatSlice(arr) == IF Len(arr) = 1 THEN arr[1] ELSE Slice(arr)


----------------------------------------------------------------------------
(* The grammar (lucenequery.peg).  A rule applied to the text s at position *)
(* i yields [ok, pos, val]: whether it matched, the position after the     *)
(* match, and the value of its action.  Choice is ordered and a repetition *)
(* takes all it can, as in a PEG.                                          *)

Ok(p, v) == [ok |-> TRUE, pos |-> p, val |-> v]

Fail == [ok |-> FALSE, pos |-> 0, val |-> NilNode]

\* _* : zero or more whitespace
WsStar(s, i) == SkipWs(s, i)

\* EOF <- !.
EOF(s, i) == i > Len(s)

\* Operator without its spellings ||, &&, and, or, not
OperatorUpper(s, i) ==
    IF Lit(s, i, sOR) THEN Ok(i + 2, "OR")
    ELSE IF Lit(s, i, sAND) THEN Ok(i + 3, "AND")
    ELSE IF Lit(s, i, sNOT) THEN Ok(i + 3, "NOT")
    ELSE Fail

\* Operator
Operator(s, i) ==
    IF Lit(s, i, sOR) THEN Ok(i + 2, "OR")
    ELSE IF Lit(s, i, sAND) THEN Ok(i + 3, "AND")
    ELSE IF Lit(s, i, sNOT) THEN Ok(i + 3, "NOT")
    ELSE IF Lit(s, i, <<"|", "|">>) THEN Ok(i + 2, "OR")
    ELSE IF Lit(s, i, <<"&", "&">>) THEN Ok(i + 2, "AND")
    ELSE IF Lit(s, i, <<"a", "n", "d">>) THEN Ok(i + 3, "AND")
    ELSE IF Lit(s, i, <<"o", "r">>) THEN Ok(i + 2, "OR")
    ELSE IF Lit(s, i, <<"n", "o", "t">>) THEN Ok(i + 3, "NOT")
    ELSE Fail

\* OperatorExp = _* Operator _+  /  _* Operator EOF
OperatorExp(s, i) ==
    With(Operator(s, WsStar(s, i)), LAMBDA o :
        IF ~o.ok THEN Fail
        ELSE IF o.pos <= Len(s) /\ IsWs(s[o.pos]) THEN Ok(SkipWs(s, o.pos), o.val)
        ELSE IF EOF(s, o.pos) THEN Ok(o.pos, o.val)
        ELSE Fail)

\* Equality
Equality(s, i) ==
    IF Lit(s, i, <<">", "=">>) THEN Ok(i + 2, "gte")
    ELSE IF Lit(s, i, <<">">>) THEN Ok(i + 1, "gt")
    ELSE IF Lit(s, i, <<"<", "=">>) THEN Ok(i + 2, "lte")
    ELSE IF Lit(s, i, <<"<">>) THEN Ok(i + 1, "lt")
    ELSE IF Lit(s, i, <<"!", "=">>) THEN Ok(i + 2, "neq")
    ELSE IF Lit(s, i, <<"!", "~", "*">>) THEN Ok(i + 3, "!~*")
    ELSE IF Lit(s, i, <<"!", "~">>) THEN Ok(i + 2, "!~")
    ELSE IF Lit(s, i, <<"~", "*">>) THEN Ok(i + 2, "~*")
    ELSE IF Lit(s, i, <<"~">>) THEN Ok(i + 1, "~")
    ELSE IF Lit(s, i, <<"g", "t", "e">>) THEN Ok(i + 3, "gte")
    ELSE IF Lit(s, i, <<"g", "t">>) THEN Ok(i + 2, "gt")
    ELSE IF Lit(s, i, <<"l", "t", "e">>) THEN Ok(i + 3, "lte")
    ELSE IF Lit(s, i, <<"l", "t">>) THEN Ok(i + 2, "lt")
    ELSE IF Lit(s, i, <<"e", "q">>) THEN Ok(i + 2, "eq")
    ELSE IF Lit(s, i, <<"n", "e", "q">>) THEN Ok(i + 3, "neq")
    ELSE Fail

\* EqualityExpr = _* Equality _*
EqualityExpr(s, i) ==
    With(Equality(s, WsStar(s, i)), LAMBDA e :
        IF e.ok THEN Ok(WsStar(s, e.pos), e.val) ELSE Fail)

\* PrefixOperatorExp = _* ('+' / '-')
PrefixOperatorExp(s, i) ==
    With(WsStar(s, i), LAMBDA j :
        IF j <= Len(s) /\ s[j] \in {"+", "-"} THEN Ok(j + 1, s[j]) ELSE Fail)

\* TermChar = '.' / [^: \t\r\n)({}"^~\\[\]*+-]
TermChar(c) ==
    c \notin {":", " ", "\t", "\r", "\n", ")", "(", "{", "}", "\"", "^", "~",
              "\\", "[", "]", "*", "+", "-"}

RECURSIVE TermCharEnd(_, _)
TermCharEnd(s, i) ==
    IF i <= Len(s) /\ TermChar(s[i]) THEN TermCharEnd(s, i + 1) ELSE i

\* TermChar once, where UnquotedTerm takes TermChar+
UnquotedTermOnce(s, i) ==
    IF i <= Len(s) /\ TermChar(s[i]) THEN Ok(i + 1, <<s[i]>>) ELSE Fail

\* UnquotedTerm = TermChar+ : the matched text
UnquotedTerm(s, i) ==
    With(TermCharEnd(s, i), LAMBDA j :
        IF j > i THEN Ok(j, Sub(s, i, j - 1)) ELSE Fail)

\* EscapedChar <- [\x00-\x1f"\\], over the characters of the model
EscapedChar(c) == c \in {"\t", "\r", "\n", "\f", "\"", "\\"}

\* the character an escape stands for, after "\/" was replaced by "/" and
\* strconv.Unquote was applied (SingleCharEscape; \b and \u are not modelled)
Unescape(c) ==
    CASE c = "n" -> "\n" [] c = "r" -> "\r" [] c = "t" -> "\t"
      [] c = "f" -> "\f" [] OTHER -> c

\* the body of a QuotedTerm from position i: [ok, pos of the closing quote,
\* val the unquoted text]
RECURSIVE QuotedBody(_, _)
QuotedBody(s, i) ==
    IF i > Len(s) THEN Fail
    ELSE IF s[i] = "\"" THEN Ok(i, <<>>)
    ELSE IF s[i] = "\\"
         THEN IF i + 1 <= Len(s) /\ s[i + 1] \in {"\"", "\\", "/", "f", "n", "r", "t"}
              THEN With(QuotedBody(s, i + 2), LAMBDA r :
                       IF r.ok THEN Ok(r.pos, <<Unescape(s[i + 1])>> \o r.val)
                       ELSE Fail)
              ELSE Fail
    ELSE IF EscapedChar(s[i]) THEN Fail
    ELSE With(QuotedBody(s, i + 1), LAMBDA r :
             IF r.ok THEN Ok(r.pos, <<s[i]>> \o r.val) ELSE Fail)

\* QuotedTerm = '"' (!EscapedChar . / '\\' EscapeSequence)* '"'
QuotedTerm(s, i) ==
    IF i <= Len(s) /\ s[i] = "\""
    THEN With(QuotedBody(s, i + 1), LAMBDA r :
             IF r.ok THEN Ok(r.pos + 1, r.val) ELSE Fail)
    ELSE Fail

\* (UnquotedTerm / QuotedTerm)
AnyTerm(s, i) ==
    With(UnquotedTerm(s, i), LAMBDA u :
        IF u.ok THEN u ELSE QuotedTerm(s, i))

RECURSIVE DigitsEnd(_, _)
DigitsEnd(s, i) ==
    IF i <= Len(s) /\ s[i] \in Digits THEN DigitsEnd(s, i + 1) ELSE i

\* the number a run of decimal digits denotes
RECURSIVE Number(_)
Number(ds) ==
    IF ds = <<>> THEN 0
    ELSE 10 * Number(SubSeq(ds, 1, Len(ds) - 1)) + DigitVal(ds[Len(ds)])

\* a fraction's digits without its trailing zeros
RECURSIVE StripZeros(_)
StripZeros(ds) ==
    IF ds # <<>> /\ ds[Len(ds)] = "0" THEN StripZeros(SubSeq(ds, 1, Len(ds) - 1))
    ELSE ds

\* IntExp = '-'? [0-9]+ { strconv.Atoi }
IntExp(s, i) ==
    With(i <= Len(s) /\ s[i] = "-", LAMBDA neg :
    With(IF neg THEN i + 1 ELSE i, LAMBDA a :
    With(DigitsEnd(s, a), LAMBDA b :
    With(Number(Sub(s, a, b - 1)), LAMBDA n :
        IF b > a THEN Ok(b, IntV(IF neg THEN 0 - n ELSE n)) ELSE Fail))))

\* DecimalExp = '-'? [0-9]+ '.' [0-9]+ { strconv.ParseFloat }
DecimalExp(s, i) ==
    With(i <= Len(s) /\ s[i] = "-", LAMBDA neg :
    With(IF neg THEN i + 1 ELSE i, LAMBDA a :
    With(DigitsEnd(s, a), LAMBDA b :
    With(DigitsEnd(s, b + 1), LAMBDA c :
    With(Number(Sub(s, a, b - 1)), LAMBDA ip :
    With(StripZeros(Sub(s, b + 1, c - 1)), LAMBDA fd :
        IF b > a /\ b <= Len(s) /\ s[b] = "." /\ c > b + 1
        THEN Ok(c, FloatV(neg /\ (ip # 0 \/ fd # <<>>), ip, fd))
        ELSE Fail))))))

DecimalOrIntExp(s, i) ==
    With(DecimalExp(s, i), LAMBDA d :
        IF d.ok THEN d ELSE IntExp(s, i))

\* WildCard <- '*' { return "*" }
WildCard(s, i) == IF Lit(s, i, sStar) THEN Ok(i + 1, StrV(sStar)) ELSE Fail

\* WildCardExp
WildCardExp(s, i) ==
    With(AnyTerm(s, i), LAMBDA t :
    With(t.ok /\ Lit(s, t.pos, sStar), LAMBDA tStar :
    With(IF tStar THEN AnyTerm(s, t.pos + 1) ELSE Fail, LAMBDA suf :
    With(Lit(s, i, sStar), LAMBDA star :
    With(IF star THEN AnyTerm(s, i + 1) ELSE Fail, LAMBDA u :
        IF tStar /\ suf.ok THEN Ok(suf.pos, WildCardQuery(t.val, suf.val, <<>>))
        ELSE IF tStar THEN Ok(t.pos + 1, WildCardQuery(t.val, <<>>, <<>>))
        ELSE IF star /\ u.ok /\ Lit(s, u.pos, sStar)
             THEN Ok(u.pos + 1, WildCardQuery(<<>>, <<>>, u.val))
        ELSE IF star /\ u.ok THEN Ok(u.pos, WildCardQuery(<<>>, u.val, <<>>))
        ELSE IF star THEN Ok(i + 1, WildCardQuery(<<>>, <<>>, <<>>))
        ELSE Fail)))))

\* Null <- "null", Bool <- "true" / "false"
Null(s, i) == IF Lit(s, i, sNull) THEN Ok(i + 4, NilV) ELSE Fail

Bool(s, i) ==
    IF Lit(s, i, sTrue) THEN Ok(i + 4, BoolV(TRUE))
    ELSE IF Lit(s, i, sFalse) THEN Ok(i + 5, BoolV(FALSE))
    ELSE Fail

\* a quoted or unquoted term as a string value
StrTerm(r) == IF r.ok THEN Ok(r.pos, StrV(r.val)) ELSE Fail

\* (Null / Bool / DecimalOrIntExp / WildCardExp / QuotedTerm / UnquotedTerm)
TermValue(s, i) ==
    With(Null(s, i), LAMBDA n :
    With(Bool(s, i), LAMBDA b :
    With(DecimalOrIntExp(s, i), LAMBDA d :
    With(WildCardExp(s, i), LAMBDA w :
    With(QuotedTerm(s, i), LAMBDA q :
        IF n.ok THEN n ELSE IF b.ok THEN b ELSE IF d.ok THEN d
        ELSE IF w.ok THEN w ELSE IF q.ok THEN StrTerm(q)
        ELSE StrTerm(UnquotedTerm(s, i)))))))

\* Term: the TermQuery has no field name yet
Term(s, i) ==
    With(EqualityExpr(s, i), LAMBDA eq :
    With(IF eq.ok THEN eq.val ELSE "", LAMBDA op :
    With(IF eq.ok THEN eq.pos ELSE i, LAMBDA a :
    With(DecimalOrIntExp(s, a), LAMBDA d :
    With(PrefixOperatorExp(s, a), LAMBDA pre :
    With(IF pre.ok THEN pre.pos ELSE a, LAMBDA b :
    With(TermValue(s, b), LAMBDA t :
        IF d.ok THEN Ok(WsStar(s, d.pos), TermQuery(<<>>, "", op, d.val))
        ELSE IF t.ok
             THEN Ok(WsStar(s, t.pos),
                     TermQuery(<<>>, IF pre.ok THEN pre.val ELSE "", op, t.val))
        ELSE Fail)))))))

\* ArrayValue = (Null / Bool / DecimalOrIntExp / QuotedTerm / UnquotedTerm) _*
ArrayValue(s, i) ==
    With(Null(s, i), LAMBDA n :
    With(Bool(s, i), LAMBDA b :
    With(DecimalOrIntExp(s, i), LAMBDA d :
    With(QuotedTerm(s, i), LAMBDA q :
    With(IF n.ok THEN n ELSE IF b.ok THEN b ELSE IF d.ok THEN d
             ELSE IF q.ok THEN StrTerm(q) ELSE StrTerm(UnquotedTerm(s, i)), LAMBDA v :
        IF v.ok THEN Ok(WsStar(s, v.pos), v.val) ELSE Fail)))))

\* (',' _* ArrayValue)* : the values and the position after them
RECURSIVE ArrayRest(_, _)
ArrayRest(s, i) ==
    With(IF Lit(s, i, <<",">>) THEN ArrayValue(s, WsStar(s, i + 1)) ELSE Fail, LAMBDA v :
        IF v.ok
        THEN With(ArrayRest(s, v.pos), LAMBDA r :
                 Ok(r.pos, <<v.val>> \o r.val))
        ELSE Ok(i, <<>>))

\* ArrayExp <- '[' _* (ArrayValue (',' _* ArrayValue)*)? _* ']'
ArrayExp(s, i) ==
    With(WsStar(s, i + 1), LAMBDA a :
    With(ArrayValue(s, a), LAMBDA v :
    With(ArrayRest(s, v.pos), LAMBDA r :
    With(IF v.ok THEN <<v.val>> \o r.val ELSE <<>>, LAMBDA vals :
    With(WsStar(s, IF v.ok THEN r.pos ELSE a), LAMBDA e :
        IF Lit(s, i, <<"[">>) /\ Lit(s, e, <<"]">>) THEN Ok(e + 1, ListV(vals))
        ELSE Fail)))))

\* (DecimalOrIntExp / WildCard / UnquotedTerm / QuotedTerm)
RangeBound(s, i) ==
    With(DecimalOrIntExp(s, i), LAMBDA d :
    With(WildCard(s, i), LAMBDA w :
    With(UnquotedTerm(s, i), LAMBDA u :
        IF d.ok THEN d ELSE IF w.ok THEN w ELSE IF u.ok THEN StrTerm(u)
        ELSE StrTerm(QuotedTerm(s, i)))))

\* RangeOperatorExp: the RangeQuery has no field name yet
RangeOperatorExp(s, i) ==
    With(Lit(s, i, <<"[">>), LAMBDA incl :
    With(IF incl THEN WsStar(s, i + 1) ELSE i + 1, LAMBDA a :
    With(RangeBound(s, a), LAMBDA min :
    With(WsStar(s, min.pos), LAMBDA b :
    With(SkipWs(s, b + 2), LAMBDA c :
    With(RangeBound(s, c), LAMBDA max :
    With(IF incl THEN <<"]">> ELSE <<"}">>, LAMBDA close :
        IF /\ (incl \/ Lit(s, i, <<"{">>))
           /\ min.ok
           /\ Lit(s, b, sTO)
           /\ c > b + 2
           /\ max.ok
           /\ Lit(s, max.pos, close)
        THEN Ok(max.pos + 1, RangeQuery(<<>>, min.val, max.val, incl))
        ELSE Fail)))))))

\* Fieldname = (UnquotedTerm / QuotedTerm) [:]
Fieldname(s, i) ==
    With(AnyTerm(s, i), LAMBDA t :
        IF t.ok /\ Lit(s, t.pos, <<":">>) THEN Ok(t.pos + 1, t.val) ELSE Fail)

RECURSIVE Node(_, _), NodePlus(_, _), ParenExp(_, _), GroupExp(_, _),
          FieldExp(_, _)

\* FieldExp
FieldExp(s, i) ==
    With(Fieldname(s, i), LAMBDA f :
    With(IF f.ok THEN f.val ELSE <<>>, LAMBDA name :
    With(WsStar(s, IF f.ok THEN f.pos ELSE i), LAMBDA a :
    With(ArrayExp(s, a), LAMBDA arr :
    With(RangeOperatorExp(s, a), LAMBDA rng :
    With(IF f.ok THEN ParenExp(s, a) ELSE Fail, LAMBDA par :
    With(Term(s, a), LAMBDA term :
        IF arr.ok THEN Ok(arr.pos, TermQuery(name, "", "in", arr.val))
        ELSE IF rng.ok THEN Ok(rng.pos, [rng.val EXCEPT !.Term = name])
        ELSE IF par.ok
             THEN Ok(par.pos,
                     IF par.val.type = "TermQuery"
                     THEN TermToQuery([par.val EXCEPT !.Term = name])
                     ELSE updateFieldName(par.val, name))
        ELSE IF term.ok
             THEN Ok(term.pos, TermToQuery([term.val EXCEPT !.Term = name]))
        ELSE Fail)))))))

\* ParenExp = "(" Node+ ")" _* : a single node is unwrapped
ParenExp(s, i) ==
    With(IF Lit(s, i, <<"(">>) THEN NodePlus(s, i + 1) ELSE Fail, LAMBDA n :
        IF n.ok /\ Lit(s, n.pos, <<")">>)
        THEN Ok(WsStar(s, n.pos + 1),
                IF Len(n.val) = 1 THEN n.val[1] ELSE Slice(n.val))
        ELSE Fail)

\* GroupExp = FieldExp _* / ParenExp
GroupExp(s, i) ==
    With(FieldExp(s, i), LAMBDA f :
        IF f.ok THEN Ok(WsStar(s, f.pos), f.val) ELSE ParenExp(s, i))

\* the nodes of a value that may be a []interface{}
Splice(v) == IF v.type = "slice" THEN v.items ELSE <<v>>

\* Node
Node(s, i) ==
    With(OperatorExp(s, i), LAMBDA o :
    With(IF o.ok THEN Node(s, o.pos) ELSE Fail, LAMBDA right :
    With(GroupExp(s, i), LAMBDA left :
    With(IF left.ok THEN OperatorExp(s, left.pos) ELSE Fail, LAMBDA op :
    With(IF left.ok THEN NodePlus(s, IF op.ok THEN op.pos ELSE left.pos)
                ELSE Fail, LAMBDA rest :
        IF o.ok /\ EOF(s, o.pos) THEN Ok(o.pos, BooleanExpression(o.val, <<>>))
        ELSE IF right.ok THEN right
        ELSE IF rest.ok
             THEN Ok(rest.pos,
                     BooleanExpression(
                         IF op.ok THEN op.val ELSE "IMPLICIT",
                         Splice(left.val)
                           \o Flatten([k \in 1..Len(rest.val) |-> Splice(rest.val[k])])))
        ELSE left)))))

\* Node+ : the sequence of nodes
NodePlus(s, i) ==
    With(Node(s, i), LAMBDA n :
    With(NodePlus(s, n.pos), LAMBDA more :
        IF ~n.ok THEN Fail
        ELSE IF more.ok THEN Ok(more.pos, <<n.val>> \o more.val)
        ELSE Ok(n.pos, <<n.val>>)))

\* Start, and the generated Parse: [err, val].  No alternative of Start asks
\* for EOF, so text after the last node is left unread.
Parse(s) ==
    With(NodePlus(s, WsStar(s, 1)), LAMBDA n :
        IF n.ok THEN [err |-> "", val |-> toFlatSlice(n.val)]
        ELSE [err |-> "invalid query", val |-> NilNode])


----------------------------------------------------------------------------
(* The SQL generator (lucenequery/sql/generator.go)                        *)

PlaceHolder == <<"?">>

sp == <<" ">>

\* operatorMappings; <<>> for a key the map does not hold
operatorMappings(op) ==
    CASE op = "eq" -> <<"=">>
      [] op = "gt" -> <<">">>
      [] op = "gte" -> <<">", "=">>
      [] op = "lt" -> <<"<">>
      [] op = "lte" -> <<"<", "=">>
      [] op = "neq" -> <<"<", ">">>
      [] op = "~" -> <<"~">>
      [] op = "~*" -> <<"~", "*">>
      [] op = "!~" -> <<"!", "~">>
      [] op = "!~*" -> <<"!", "~", "*">>
      [] op = "in" -> <<"I", "N">>
      [] op = "between" -> <<"B", "E", "T", "W", "E", "E", "N">>
      [] op = "IMPLICIT" -> sOR
      [] op = "AND" -> sAND
      [] op = "OR" -> sOR
      [] op = "NOT" -> sNOT
      [] OTHER -> <<>>

\* the length of the conjunction (AND|OR) at s[p..], 0 when there is none
ConjAt(s, p) == IF Lit(s, p, sAND) THEN 3 ELSE IF Lit(s, p, sOR) THEN 2 ELSE 0

\* the last index of the run of [^()] characters that starts at q
RECURSIVE NoParenEnd(_, _)
NoParenEnd(s, q) ==
    IF q <= Len(s) /\ s[q] \notin {"(", ")"} THEN NoParenEnd(s, q + 1) ELSE q - 1

\* regexes[0]: ^\s*(AND|OR)\s+([^()]+)(AND|OR) replaced by $2$1.  \s+ and
\* [^()]+ are greedy: the second conjunction is the last one of the run, and
\* \s+ gives a character back only when nothing else matches.
Regex1(s) ==
    With(SkipSpace(s, 1), LAMBDA a :
    With(ConjAt(s, a), LAMBDA c :
    With(a + c, LAMBDA b :
    With(SkipSpace(s, b), LAMBDA w :
    With(NoParenEnd(s, b), LAMBDA e :
    With({p \in (w + 1)..e : ConjAt(s, p) > 0}, LAMBDA P :
    With(IF P # {} THEN Max(P) ELSE w, LAMBDA p :
    With(IF P # {} THEN w ELSE w - 1, LAMBDA from :
        IF c > 0 /\ w > b /\ (P # {} \/ (w - b >= 2 /\ ConjAt(s, w) > 0))
        THEN Sub(s, from, p - 1) \o Sub(s, a, b - 1)
               \o Sub(s, p + ConjAt(s, p), Len(s))
        ELSE s))))))))

\* regexes[1]: ^\s*(AND|OR)\s*([^()]+)$ replaced by $2
Regex2(s) ==
    With(SkipSpace(s, 1), LAMBDA a :
    With(ConjAt(s, a), LAMBDA c :
    With(a + c, LAMBDA b :
    With(SkipSpace(s, b), LAMBDA w :
        IF c > 0 /\ b <= Len(s) /\ NoParenEnd(s, b) = Len(s)
        THEN Sub(s, IF w <= Len(s) THEN w ELSE Len(s), Len(s))
        ELSE s))))

\* the index of the next '"' at or after i, 0 when there is none
RECURSIVE NextQuote(_, _)
NextQuote(s, i) ==
    IF i > Len(s) THEN 0 ELSE IF s[i] = "\"" THEN i ELSE NextQuote(s, i + 1)

\* regexes[2]: ("[^"]+").""  replaced by $1, every match from the left
RECURSIVE Regex3From(_, _)
Regex3From(s, i) ==
    IF i > Len(s) THEN <<>>
    ELSE With(NextQuote(s, i + 1), LAMBDA j :
             IF /\ s[i] = "\""
                /\ j >= i + 2
                /\ j + 3 <= Len(s)
                /\ s[j + 1] # "\n"
                /\ s[j + 2] = "\""
                /\ s[j + 3] = "\""
             THEN Sub(s, i, j) \o Regex3From(s, j + 4)
             ELSE <<s[i]>> \o Regex3From(s, i + 1))

Regex3(s) == Regex3From(s, 1)

RECURSIVE TrimRight(_)
TrimRight(s) ==
    IF s # <<>> /\ IsSpace(s[Len(s)]) THEN TrimRight(SubSeq(s, 1, Len(s) - 1))
    ELSE s

\* strings.TrimSpace
TrimSpace(s) == TrimRight(Sub(s, SkipSpace(s, 1), Len(s)))

cleanExpr(expr) == TrimSpace(Regex3(Regex2(Regex1(expr))))

\* regexp.MatchString(`^\s*(AND|OR|NOT)`, q)
StartsWithOperator(q) ==
    With(SkipSpace(q, 1), LAMBDA a :
        ConjAt(q, a) > 0 \/ Lit(q, a, sNOT))

\* Query and Fragment; err is "" for a nil error, arg is the term an
\* `invalid column` error message names
Query(q, args, columns) ==
    [err |-> "", arg |-> <<>>, Query |-> q, Args |-> args, Columns |-> columns]

Failed(q, e) == [q EXCEPT !.err = e]

FailedWith(q, e, a) == [q EXCEPT !.err = e, !.arg = a]

Fragment(e, column, term, q, args) ==
    [err |-> e, Column |-> column, Term |-> term, Query |-> q, Args |-> args]

\* the column handler ToSQL installs when the options have none
DefaultColumnHandler(field) ==
    IF field.type \in {"RangeQuery", "TermQuery"}
    THEN Fragment("", field.Term, field.Term, <<>>, <<>>)
    ELSE Fragment("unknown type", <<>>, <<>>, <<>>, <<>>)

\* a caller's column handler that maps the field `a` to a fragment of its own
SqlColumnHandler(field) ==
    IF field.type \in {"RangeQuery", "TermQuery"} /\ field.Term = <<"a">>
    THEN Fragment("", <<"c">>, <<"a">>, <<"c", " ", "@", " ", "?">>, <<IntV(7)>>)
    ELSE DefaultColumnHandler(field)

\* a caller's column handler that maps the field `a` to a fragment on a
\* column whose name begins with the letters of an operator
OrColumnHandler(field) ==
    IF field.type \in {"RangeQuery", "TermQuery"} /\ field.Term = <<"a">>
    THEN Fragment("", sOR \o <<"c">>, <<"a">>,
                  sOR \o <<"c", " ", "@", " ", "?">>, <<IntV(7)>>)
    ELSE DefaultColumnHandler(field)

\* a caller's column handler that rejects the field `a`
ErrColumnHandler(field) ==
    IF field.type \in {"RangeQuery", "TermQuery"} /\ field.Term = <<"a">>
    THEN Fragment("denied", <<>>, <<>>, <<>>, <<>>)
    ELSE DefaultColumnHandler(field)

\* opt.ColumnHandler(field): "nil" is the unset handler, "default" the one
\* ToSQL has installed
ColumnHandler(o, field) ==
    CASE o.ColumnHandler = "sql" -> SqlColumnHandler(field)
      [] o.ColumnHandler = "sqlOR" -> OrColumnHandler(field)
      [] o.ColumnHandler = "err" -> ErrColumnHandler(field)
      [] OTHER -> DefaultColumnHandler(field)

\* ToSQL, its first statement: an unset handler is assigned in the options
InstallHandler(o) ==
    IF o.ColumnHandler = "nil" THEN [o EXCEPT !.ColumnHandler = "default"] ELSE o


\* the conjunction a BooleanExpression joins its arguments with
BooleanOp(v, o) ==
    With(operatorMappings(v.Op), LAMBDA m :
    With(IF v.Op = "IMPLICIT" /\ o.SearchMode = "ALL" THEN sAND
              ELSE IF m = <<>> THEN sOR ELSE m, LAMBDA op :
        IF op = sNOT
        THEN (IF o.SearchMode = "ANY" THEN sOR \o sp \o sNOT
              ELSE sAND \o sp \o sNOT)
        ELSE op))

\* renderSQL, case lucenequery.TermQuery, after the column handler
RenderTerm(v, o, fragment, columns) ==
    With(IF fragment.Term = <<>> THEN o.DefaultField ELSE fragment.Term, LAMBDA term :
    With(operatorMappings(v.Op), LAMBDA m :
    With(IF v.Op # "" /\ m # <<>> THEN m ELSE <<"=">>, LAMBDA op :
    With(<<"L", "I", "K", "E">>, LAMBDA like :
    With(WildKind(v.Value), LAMBDA wk :
    With(IF v.Value.k = "wild"
             THEN CASE wk = "prefix" ->
                         [Query |-> term \o sp \o like \o <<" ", "'">> \o PlaceHolder
                                      \o <<"%", "'">>,
                          Args |-> <<StrV(v.Value.Prefix)>>]
                    [] wk = "suffix" ->
                         [Query |-> term \o sp \o like \o <<" ", "'", "%">>
                                      \o PlaceHolder \o <<"'">>,
                          Args |-> <<StrV(v.Value.Suffix)>>]
                    [] wk = "between" ->
                         [Query |-> term \o sp \o like \o <<" ", "'">> \o PlaceHolder
                                      \o <<"%">> \o PlaceHolder \o <<"'">>,
                          Args |-> <<StrV(v.Value.Prefix), StrV(v.Value.Suffix)>>]
                    [] wk = "any" ->
                         [Query |-> term \o sp \o like \o <<" ", "'", "%">>
                                      \o PlaceHolder \o <<"%", "'">>,
                          Args |-> <<StrV(v.Value.Term)>>]
                    [] OTHER ->
                         [Query |-> term \o <<" ", "I", "S", " ", "N", "O", "T", " ",
                                               "N", "U", "L", "L">>,
                          Args |-> <<>>]
             ELSE IF op = <<"I", "N">>
             THEN IF v.Value.k = "list" /\ v.Value.items = <<>>
                  THEN [Query |-> <<"1", " ", "=", " ", "0">>, Args |-> <<>>]
                  ELSE [Query |-> term \o <<" ", "I", "N", " ", "(">> \o PlaceHolder
                                    \o <<")">>,
                        Args |-> <<v.Value>>]
             ELSE [Query |-> term \o sp \o op \o sp \o PlaceHolder,
                   Args |-> <<v.Value>>], LAMBDA q :
    With(IF v.Prefix = "+" THEN sp \o sAND \o sp
               ELSE IF v.Prefix = "-"
               THEN (IF o.SearchMode = "ANY" THEN sp \o sOR \o sp \o sNOT \o sp
                     ELSE sp \o sAND \o sp \o sNOT \o sp)
               ELSE <<>>, LAMBDA pre :
        IF fragment.Term = <<>> /\ o.DefaultField = <<>>
        THEN Failed(Query(<<>>, <<>>, columns), "term without a name")
        ELSE IF v.Value = NilV
        THEN Query(term \o (IF v.Prefix = "-"
                            THEN <<" ", "I", "S", " ", "N", "O", "T", " ", "N", "U",
                                   "L", "L">>
                            ELSE <<" ", "I", "S", " ", "N", "U", "L", "L">>),
                   <<>>, columns)
        ELSE Query(pre \o q.Query, q.Args, columns))))))))

\* renderSQL, case lucenequery.RangeQuery, after the column handler
RenderRange(v, o, fragment, columns) ==
    With(Kind(v), LAMBDA op :
    With(IF fragment.Term = <<>> THEN o.DefaultField ELSE fragment.Term, LAMBDA term :
        IF fragment.Term = <<>> /\ o.DefaultField = <<>>
        THEN Failed(Query(<<>>, <<>>, columns), "term without a name")
        ELSE IF op \in {"gt", "gte"}
        THEN Query(term \o sp \o operatorMappings(op) \o sp \o PlaceHolder,
                   <<v.Min>>, columns)
        ELSE IF op \in {"lt", "lte"}
        THEN Query(term \o sp \o operatorMappings(op) \o sp \o PlaceHolder,
                   <<v.Max>>, columns)
        ELSE IF op = "between"
        THEN (IF v.Inclusive
              THEN Query(term \o sp \o operatorMappings(op) \o sp \o PlaceHolder
                           \o <<" ", "a", "n", "d", " ">> \o PlaceHolder,
                         <<v.Min, v.Max>>, columns)
              ELSE Query(term \o <<" ", ">", " ">> \o PlaceHolder
                           \o <<" ", "a", "n", "d", " ">> \o term \o <<" ", "<", " ">>
                           \o PlaceHolder,
                         <<v.Min, v.Max>>, columns))
        ELSE Failed(Query(<<>>, <<>>, columns), "unknown range type")))

\* renderSQL, cases TermQuery and RangeQuery: the column handler first
RenderField(v, o) ==
    With(ColumnHandler(o, v), LAMBDA fragment :
    With(IF fragment.Column # <<>> THEN <<fragment.Column>> ELSE <<>>, LAMBDA columns :
        IF fragment.err # ""
        THEN FailedWith(Query(<<>>, <<>>, <<>>), "invalid column", v.Term)
        ELSE IF fragment.Query # <<>>
        THEN Query(fragment.Query, fragment.Args, columns)
        ELSE IF v.type = "TermQuery" THEN RenderTerm(v, o, fragment, columns)
        ELSE RenderRange(v, o, fragment, columns)))

\* the columns of a rendered argument that the loop appends: the cache that
\* guards the append is never written to, so every column is appended
NewColumns(cache, columns) ==
    SelectSeq(columns, LAMBDA t : t \notin cache)

RECURSIVE renderSQL(_, _), RenderSlice(_, _, _, _), RenderArgs(_, _, _, _)

\* renderSQL, case []interface{}: the loop from element i on
RenderSlice(items, i, acc, o) ==
    IF i > Len(items) THEN [acc EXCEPT !.Query = cleanExpr(acc.Query)]
    ELSE With(renderSQL(items[i], o), LAMBDA q :
             IF q.err # "" THEN Failed(acc, q.err)
             ELSE RenderSlice(items, i + 1,
                      Query(acc.Query \o q.Query, acc.Args \o q.Args,
                            acc.Columns \o NewColumns({}, q.Columns)),
                      o))

\* renderSQL, case lucenequery.BooleanExpression: the loop from argument i on
RenderArgs(v, i, acc, o) ==
    IF i > Len(v.Args)
    THEN [acc EXCEPT !.Query = <<"(">> \o TrimSpace(cleanExpr(acc.Query)) \o <<")">>]
    ELSE With(renderSQL(v.Args[i], o), LAMBDA q :
         With(IF i > 1 /\ ~StartsWithOperator(q.Query)
                    THEN sp \o BooleanOp(v, o) \o sp ELSE <<>>, LAMBDA sep :
             IF q.err # "" THEN q
             ELSE RenderArgs(v, i + 1,
                      Query(acc.Query \o sep \o q.Query, acc.Args \o q.Args,
                            acc.Columns \o NewColumns({}, q.Columns)),
                      o)))

\* renderSQL for a parsed filter
renderSQL(filter, o) ==
    CASE filter.type = "slice" ->
           RenderSlice(filter.items, 1, Query(<<>>, <<>>, <<>>), o)
      [] filter.type = "BooleanExpression" ->
           RenderArgs(filter, 1, Query(<<>>, <<>>, <<>>), o)
      [] filter.type \in {"TermQuery", "RangeQuery"} -> RenderField(filter, o)
      [] OTHER -> Failed(Query(<<>>, <<>>, <<>>), "unknown type")

RECURSIVE HandlerCalls(_, _), CallsFrom(_, _, _)

\* the handler invocations of the loops of renderSQL from element i on: a
\* loop returns at the first element that fails
CallsFrom(items, i, o) ==
    IF i > Len(items) THEN <<>>
    ELSE HandlerCalls(items[i], o)
           \o (IF renderSQL(items[i], o).err # "" THEN <<>>
               ELSE CallsFrom(items, i + 1, o))

\* the fields renderSQL hands to opt.ColumnHandler, in the order of the calls
HandlerCalls(filter, o) ==
    CASE filter.type = "slice" -> CallsFrom(filter.items, 1, o)
      [] filter.type = "BooleanExpression" -> CallsFrom(filter.Args, 1, o)
      [] filter.type \in {"TermQuery", "RangeQuery"} -> <<filter>>
      [] OTHER -> <<>>

\* ToSQL for a parsed filter
ToSQL(filter, o) ==
    With(renderSQL(filter, o), LAMBDA q :
        IF q.err # "" THEN q ELSE [q EXCEPT !.Query = cleanExpr(q.Query)])

\* ToSQL for a filter given as text: renderSQL, case string
ToSQLString(s, o) ==
    With(Parse(s), LAMBDA dsl :
        IF dsl.err # "" THEN Failed(Query(<<>>, <<>>, <<>>), dsl.err)
        ELSE ToSQL(dsl.val, o))


----------------------------------------------------------------------------
(* The field mask parser (fieldmask.peg).  A mask is a record tagged by m:  *)
(* "term" (termMask), "group" (termGroup) or "array" (termArray); a path is *)
(* a sequence of segments, a segment a text.                               *)

termMask(name) == [m |-> "term", name |-> name]

termGroup(name, masks) == [m |-> "group", name |-> name, masks |-> masks]

termArray(masks) == [m |-> "array", masks |-> masks]

\* strings.Replace(t, " ", "", -1)
NoSpace(t) == SelectSeq(t, LAMBDA c : c # " ")

\* termMask.paths, termGroup.paths and termArray.paths
RECURSIVE paths(_)
paths(t) ==
    CASE t.m = "term" -> <<t.name>>
      [] t.m = "group" ->
           With(Flatten([i \in 1..Len(t.masks) |-> paths(t.masks[i])]), LAMBDA ps :
               [i \in 1..Len(ps) |-> t.name \o ps[i]])
      [] t.m = "array" -> Flatten([i \in 1..Len(t.masks) |-> paths(t.masks[i])])

\* the class [^: \t\r\n)(/,] of Identifier
IsIdentifierChar(c) == c \notin {":", " ", "\t", "\r", "\n", ")", "(", "/", ","}

RECURSIVE IdentifierEnd(_, _)
IdentifierEnd(s, i) ==
    IF i <= Len(s) /\ IsIdentifierChar(s[i]) THEN IdentifierEnd(s, i + 1) ELSE i

\* Identifier = [^: \t\r\n)(/,]+
Identifier(s, i) ==
    With(IdentifierEnd(s, i), LAMBDA j :
        IF j > i THEN Ok(j, Sub(s, i, j - 1)) ELSE Fail)

\* QuotedTerm of fieldmask.peg, the rule of lucenequery.peg word for word
MaskQuotedTerm(s, i) == QuotedTerm(s, i)

\* (QuotedTerm / Identifier)
QuotedOrIdentifier(s, i) ==
    With(MaskQuotedTerm(s, i), LAMBDA q :
        IF q.ok THEN q ELSE Identifier(s, i))

\* TermPath = QuotedTerm / Identifier / WildCard
TermPath(s, i) ==
    With(QuotedOrIdentifier(s, i), LAMBDA q :
        IF q.ok THEN q
        ELSE IF Lit(s, i, sStar) THEN Ok(i + 1, sStar) ELSE Fail)

\* ('/' _ TermPath _)* from position i: the position after the last segment
\* and the segments, each without its spaces
RECURSIVE PathTail(_, _)
PathTail(s, i) ==
    IF i <= Len(s) /\ s[i] = "/"
    THEN With(TermPath(s, SkipWs(s, i + 1)), LAMBDA t :
             IF t.ok
             THEN With(PathTail(s, SkipWs(s, t.pos)), LAMBDA r :
                      Ok(r.pos, <<NoSpace(t.val)>> \o r.val))
             ELSE Ok(i, <<>>))
    ELSE Ok(i, <<>>)

\* Path = id:TermPath _ vals:('/' _ TermPath _)+
Path(s, i) ==
    With(TermPath(s, i), LAMBDA id :
        IF ~id.ok THEN Fail
        ELSE With(PathTail(s, SkipWs(s, id.pos)), LAMBDA vals :
                 IF vals.val = <<>> THEN Fail
                 ELSE Ok(vals.pos, <<id.val>> \o vals.val)))

\* Term = _ id:(QuotedTerm / Identifier) _ vals:('/' _ TermPath _)* of
\* fieldmask.peg
MaskTerm(s, i) ==
    With(QuotedOrIdentifier(s, SkipWs(s, i)), LAMBDA id :
        IF ~id.ok THEN Fail
        ELSE With(PathTail(s, SkipWs(s, id.pos)), LAMBDA vals :
                 Ok(vals.pos, termMask(<<NoSpace(id.val)>> \o vals.val))))

\* key:(Path / QuotedTerm / Identifier) of TermGroup: the names of the group
GroupKey(s, i) ==
    With(Path(s, i), LAMBDA p :
        IF p.ok THEN p
        ELSE With(QuotedOrIdentifier(s, i), LAMBDA q :
                 IF q.ok THEN Ok(q.pos, <<q.val>>) ELSE Fail))

RECURSIVE TermGroup(_, _), MaskTermValue(_, _), TermArray(_, _), TermArrayRest(_, _),
          ArrayOrValue(_, _)

\* (TermArray / TermValue)
ArrayOrValue(s, i) ==
    With(TermArray(s, i), LAMBDA a :
        IF a.ok THEN a ELSE MaskTermValue(s, i))

\* TermGroup = _ key:(Path / QuotedTerm / Identifier) _ '(' _
\*             vals:(TermArray / TermValue) _ ')'
TermGroup(s, i) ==
    With(GroupKey(s, SkipWs(s, i)), LAMBDA key :
        IF ~key.ok THEN Fail
        ELSE With(SkipWs(s, key.pos), LAMBDA j :
             IF ~(j <= Len(s) /\ s[j] = "(") THEN Fail
             ELSE With(ArrayOrValue(s, SkipWs(s, j + 1)), LAMBDA vals :
                  IF ~vals.ok THEN Fail
                  ELSE With(SkipWs(s, vals.pos), LAMBDA k :
                       IF k <= Len(s) /\ s[k] = ")"
                       THEN Ok(k + 1, termGroup(key.val, <<vals.val>>))
                       ELSE Fail))))

\* TermValue = TermGroup / Term of fieldmask.peg
MaskTermValue(s, i) ==
    With(TermGroup(s, i), LAMBDA g :
        IF g.ok THEN g ELSE MaskTerm(s, i))

\* (',' _ TermValue)* from position i: the position after the last value and
\* the values
TermArrayRest(s, i) ==
    IF i <= Len(s) /\ s[i] = ","
    THEN With(MaskTermValue(s, SkipWs(s, i + 1)), LAMBDA v :
             IF v.ok
             THEN With(TermArrayRest(s, v.pos), LAMBDA r :
                      Ok(r.pos, <<v.val>> \o r.val))
             ELSE Ok(i, <<>>))
    ELSE Ok(i, <<>>)

\* TermArray = vals:(TermValue _ (',' _ TermValue)+)
TermArray(s, i) ==
    With(MaskTermValue(s, i), LAMBDA v :
        IF ~v.ok THEN Fail
        ELSE With(TermArrayRest(s, SkipWs(s, v.pos)), LAMBDA rest :
                 IF rest.val = <<>> THEN Fail
                 ELSE Ok(rest.pos, termArray(<<v.val>> \o rest.val))))

\* Value = val:(TermArray / TermValue) _
MaskValue(s, i) ==
    With(ArrayOrValue(s, i), LAMBDA v :
        IF v.ok THEN Ok(SkipWs(s, v.pos), v.val) ELSE Fail)

\* Masks(q): the rule Masks = val:Value EOF and the function Masks; err is ""
\* for a nil error
Masks(q) ==
    With(MaskValue(q, 1), LAMBDA v :
        IF v.ok /\ EOF(q, v.pos) THEN [err |-> "", val |-> paths(v.val)]
        ELSE [err |-> "no match found", val |-> <<>>])

----------------------------------------------------------------------------
(* Query texts.  Names and bare values are built from a few atoms: a plain *)
(* letter, a digit, and characters and words the grammar and the generator *)
(* give a meaning to elsewhere (`?`, `<`, OR, null).                       *)

MaxLen == 2

MaxTerms == 2

RECURSIVE Words(_, _)
Words(atoms, n) ==
    IF n = 0 THEN {<<>>}
    ELSE LET W == Words(atoms, n - 1) IN W \cup {w \o a : w \in W, a \in atoms}

NameAtoms == {<<"a">>, sOR, <<"?">>}

Names == Words(NameAtoms, MaxLen) \ {<<>>}

ValueAtoms == {<<"a">>, <<"5">>, <<"<">>, sNull}

BareValues == Words(ValueAtoms, MaxLen) \ {<<>>}

Quote(t) == <<"\"">> \o t \o <<"\"">>

\* `F: ` before a value; nothing for the empty name
FieldText(f) == IF f = <<>> THEN <<>> ELSE f \o <<":", " ">>

\* the spellings of the equality operators, by the op the grammar gives them
EqSpellings ==
    {[op |-> "", text |-> <<>>],
     [op |-> "eq", text |-> <<"e", "q", " ">>],
     [op |-> "neq", text |-> <<"!", "=", " ">>],
     [op |-> "neq", text |-> <<"n", "e", "q", " ">>],
     [op |-> "~", text |-> <<"~", " ">>],
     [op |-> "~*", text |-> <<"~", "*", " ">>],
     [op |-> "!~", text |-> <<"!", "~", " ">>],
     [op |-> "!~*", text |-> <<"!", "~", "*", " ">>]}

\* scalar literals with the value they denote
Scalars ==
    {[text |-> <<"5">>, val |-> IntV(5)],
     [text |-> <<"-", "5">>, val |-> IntV(0 - 5)],
     [text |-> <<"0", "5">>, val |-> IntV(5)],
     [text |-> <<"5", ".", "5", "0">>, val |-> FloatV(FALSE, 5, <<"5">>)],
     [text |-> Quote(<<"a", " ", "b">>), val |-> StrV(<<"a", " ", "b">>)],
     [text |-> Quote(<<"*">>), val |-> StrV(<<"*">>)],
     [text |-> <<"b">>, val |-> StrV(<<"b">>)],
     [text |-> sTrue, val |-> BoolV(TRUE)],
     [text |-> sFalse, val |-> BoolV(FALSE)],
     [text |-> sNull, val |-> NilV]}

\* `F: op V`
TermText(f, e, v) == FieldText(f) \o e \o v

SingleTerms ==
    {TermText(f, e.text, v.text) :
        f \in Names, e \in EqSpellings,
        v \in {x \in Scalars : x.text \in {<<"5">>, <<"b">>, Quote(<<"a", " ", "b">>)}}}

\* other values of a term: wildcards and lists
OtherValues ==
    {sStar, <<"a", "*">>, <<"*", "a">>, <<"a", "*", "b">>, <<"*", "a", "*">>,
     <<"[", "]">>, <<"[", "5", ",", "6", "]">>}

\* `[F: ][+|-]V`
PrefixedTerms ==
    {FieldText(f) \o p \o v :
        f \in {<<>>, <<"a">>, <<"a">> \o sOR}, p \in {<<>>, <<"+">>, <<"-">>},
        v \in {x.text : x \in Scalars} \cup OtherValues}

\* `f: V` and `f: "V"` for a value V of unquoted-term characters
BareTerms == {FieldText(<<"f">>) \o v : v \in BareValues}

QuotedTerms == {FieldText(<<"f">>) \o Quote(v) : v \in BareValues}

\* the three spellings of a one-sided range, by the op of the comparison
CompareText(op, v) ==
    CASE op = "gt" -> <<">", " ">> \o v
      [] op = "gte" -> <<">", "=", " ">> \o v
      [] op = "lt" -> <<"<", " ">> \o v
      [] op = "lte" -> <<"<", "=", " ">> \o v

WordText(op, v) ==
    CASE op = "gt" -> <<"g", "t", " ">> \o v
      [] op = "gte" -> <<"g", "t", "e", " ">> \o v
      [] op = "lt" -> <<"l", "t", " ">> \o v
      [] op = "lte" -> <<"l", "t", "e", " ">> \o v

BracketText(op, v) ==
    CASE op = "gt" -> <<"{">> \o v \o <<" ", "T", "O", " ", "*", "}">>
      [] op = "gte" -> <<"[">> \o v \o <<" ", "T", "O", " ", "*", "]">>
      [] op = "lt" -> <<"{", "*", " ", "T", "O", " ">> \o v \o <<"}">>
      [] op = "lte" -> <<"[", "*", " ", "T", "O", " ">> \o v \o <<"]">>

Inequalities == {"gt", "gte", "lt", "lte"}

RangeValues == {x.text : x \in Scalars} \cup BareValues

OneSidedRanges ==
    UNION {{FieldText(<<"f">>) \o CompareText(op, v),
            FieldText(<<"f">>) \o WordText(op, v),
            FieldText(<<"f">>) \o BracketText(op, v)} :
              op \in Inequalities, v \in RangeValues}

\* `F:[x TO y]` and `F:{x TO y}`
RangeBounds == {sStar, <<"1">>, <<"b">>, Quote(<<"c">>)}

TwoSidedRanges ==
    {FieldText(f) \o b[1] \o x \o <<" ", "T", "O", " ">> \o y \o b[2] :
        f \in {<<>>, <<"a">>}, b \in {<<"[", "]">>, <<"{", "}">>},
        x \in RangeBounds, y \in RangeBounds}

\* the clauses of the boolean queries
Clauses ==
    {<<"a", ":", "1">>, <<"b">>, <<"+", "b">>, <<"-", "b">>,
     <<"O", "R", "a", ":", "2">>, <<"a", "O", "R", ":", "2">>,
     <<"b", ":", ">", "3">>}

Connectives ==
    {<<" ">>, <<" ", "O", "R", " ">>, <<" ", "A", "N", "D", " ">>,
     <<" ", "N", "O", "T", " ">>}

\* c1 k c2 k ... of at most n clauses
RECURSIVE Chains(_)
Chains(n) ==
    IF n = 1 THEN Clauses
    ELSE LET C == Chains(n - 1)
         IN  C \cup {c \o k \o d : c \in C, k \in Connectives, d \in Clauses}

BooleanQueries == Chains(MaxTerms)

\* runs of operator tokens, and the queries put after them
OperatorRuns ==
    {sOR, sNOT, sOR \o sp \o sAND, <<"&", "&">>, <<"o", "r", " ", "|", "|", " ", "n", "o", "t">>}

LedQueries ==
    Chains(1) \cup {<<"a", ":", "1", " ", "O", "R", " ", "b">>,
                    <<"(", "a", ":", "1", " ", "b", ")">>,
                    <<"b", " ", "a", "n", "d">>}

\* a query after operators, and before one
LeadingOperator == {o \o <<" ">> \o q : o \in OperatorRuns, q \in LedQueries}

TrailingOperator == {q \o <<" ">> \o o : o \in {sOR, sAND}, q \in Chains(1)}

OnlyOperators == {sOR, sp \o sOR \o sp, sOR \o sp \o sAND}

\* text that no rule matches after a query: closing brackets without their
\* opening ones
UnreadTails == {<<")">>, <<"]">>, <<" ", ")">>, <<")", " ", "b">>}

\* a query and such a text behind it
TrailingText ==
    {q \o t : q \in Chains(1) \cup {<<"(", "a", ":", "1", " ", "b", ")">>},
              t \in UnreadTails}

\* `(E)`, `(E) k c` and `F:(E)`
Grouped ==
    {<<"(">> \o q \o <<")">> : q \in BooleanQueries}
      \cup {<<"(">> \o q \o <<")">> \o k \o <<"(">> \o q \o <<")">> :
              q \in Chains(1), k \in Connectives}

FieldGroups ==
    {f \o <<":", "(">> \o q \o <<")">> :
        f \in {<<"g">>}, q \in BooleanQueries \cup TwoSidedRanges}

Queries ==
    SingleTerms \cup PrefixedTerms \cup BareTerms \cup QuotedTerms
      \cup OneSidedRanges \cup TwoSidedRanges \cup BooleanQueries
      \cup LeadingOperator \cup TrailingOperator \cup OnlyOperators
      \cup Grouped \cup FieldGroups \cup TrailingText \cup {<<>>, <<")">>}

SearchModes == {"ANY", "ALL"}

DefaultFields == {<<>>, <<"d">>}

\* a bound on the segments of a path written with `/`
MaxPath == 2

\* segments: identifiers, the wildcard, quoted terms with a space and a `/`
MaskSegments ==
    {<<"a">>, <<"*">>, Quote(<<"a", " ", "b">>), Quote(<<"a", "/", "b">>)}

\* s1/s2/... of at most n segments
RECURSIVE MaskPaths(_)
MaskPaths(n) ==
    IF n = 1 THEN MaskSegments
    ELSE LET P == MaskPaths(n - 1)
         IN  P \cup {p \o <<"/">> \o t : p \in P, t \in MaskSegments}

\* the keys of groups
MaskKeys == MaskPaths(MaxPath)

\* the children of groups: paths and groups of one segment
MaskChildren ==
    MaskKeys \cup {k \o <<"(">> \o t \o <<")">> : k \in MaskSegments, t \in MaskSegments}

\* the children of groups of two
MaskPairChildren ==
    MaskSegments \cup {<<"a", "/", "*">>, <<"a", "(", "*", ")">>}

\* `P(c1)` and `P(c1,c2)`, `items ( id )`, lists, and texts that are no mask
MaskTexts ==
    {p \o <<"(">> \o c \o <<")">> : p \in MaskKeys, c \in MaskChildren}
      \cup {p \o <<"(">> \o c \o <<",">> \o d \o <<")">> :
               p \in MaskKeys, c \in MaskPairChildren, d \in MaskPairChildren}
      \cup {<<" ">> \o p \o <<" ", "(", " ">> \o c \o <<" ", ")", " ">> :
               p \in MaskSegments, c \in MaskSegments}
      \cup {c \o <<",">> \o d : c \in MaskChildren, d \in MaskPairChildren}
      \cup MaskPaths(MaxPath + 1)
      \cup {<<>>, <<"a", "(", ")">>, <<"a", "/">>, <<"a", ",", " ", "a", "(", "*", ")", " ", ",", "a">>}

\* options as a caller first passes them, the column handler unset
Options ==
    [DefaultField : DefaultFields, SearchMode : SearchModes, ColumnHandler : {"nil"}]

\* options with a column handler of the caller's
HandlerOptions ==
    [DefaultField : DefaultFields, SearchMode : SearchModes,
     ColumnHandler : {"sql", "sqlOR", "err"}]

\* clauses on the handled field `a`, on another field and on no field
HandlerClauses ==
    {<<"a", ":", "1">>, <<"a", ":", "-", "b">>, <<"a", ":", "+", "b">>,
     <<"a", ":", ">", "3">>, <<"b", ":", "2">>, <<"c">>}

HandlerQueries ==
    PrefixedTerms \cup TwoSidedRanges
      \cup {c \o k \o d : c \in HandlerClauses, k \in Connectives, d \in HandlerClauses}

\* a bound on the nodes of a list that a caller hands to ToSQL
MaxList == 3

\* the nodes a caller puts into a list: parsed clauses
ListNodes == {Parse(c).val : c \in HandlerClauses}

\* lists of n nodes
RECURSIVE NodeLists(_)
NodeLists(n) ==
    IF n = 0 THEN {<<>>}
    ELSE {l \o <<v>> : l \in NodeLists(n - 1), v \in ListNodes}

\* the filters that are lists of two nodes and more
ListFilters == {Slice(l) : l \in UNION {NodeLists(n) : n \in 2..MaxList}}

----------------------------------------------------------------------------
(* The calls: a caller parses a query text and has it rendered.  ToSQL of  *)
(* a text parses it with Parse and renders what Parse returned.            *)

NoQuery == Query(<<>>, <<>>, <<>>)

NoMasks == [err |-> "", val |-> <<>>]

Init ==
    /\ src \in Queries
    /\ opt \in Options
    /\ pc = "start"
    /\ ast = NilNode
    /\ perr = ""
    /\ query = NoQuery
    /\ calls = <<>>
    /\ got = NoMasks

\* the same calls by a caller that has set a column handler
HandlerInit ==
    /\ src \in HandlerQueries
    /\ opt \in HandlerOptions
    /\ pc = "start"
    /\ ast = NilNode
    /\ perr = ""
    /\ query = NoQuery
    /\ calls = <<>>
    /\ got = NoMasks

\* a caller hands a list of parsed nodes to ToSQL
ListInit ==
    /\ src = <<>>
    /\ opt \in Options
    /\ pc = "parsed"
    /\ ast \in ListFilters
    /\ perr = ""
    /\ query = NoQuery
    /\ calls = <<>>
    /\ got = NoMasks

\* a caller hands a field mask text to Masks
MaskInit ==
    /\ src \in MaskTexts
    /\ opt = [DefaultField |-> <<>>, SearchMode |-> "ANY", ColumnHandler |-> "nil"]
    /\ pc = "start"
    /\ ast = NilNode
    /\ perr = ""
    /\ query = NoQuery
    /\ calls = <<>>
    /\ got = NoMasks

DoParse ==
    /\ pc = "start"
    /\ LET r == Parse(src) IN ast' = r.val /\ perr' = r.err
    /\ pc' = "parsed"
    /\ UNCHANGED <<src, opt, query, calls, got>>

DoToSQL ==
    /\ pc = "parsed"
    /\ opt' = InstallHandler(opt)
    /\ query' = IF perr # "" THEN Failed(NoQuery, perr) ELSE ToSQL(ast, opt')
    /\ calls' = IF perr # "" THEN <<>> ELSE HandlerCalls(ast, opt')
    /\ pc' = "done"
    /\ UNCHANGED <<src, ast, perr, got>>

Next == DoParse \/ DoToSQL

Spec == Init /\ [][Next]_vars

HandlerSpec == HandlerInit /\ [][Next]_vars

ListNext == DoToSQL

ListSpec == ListInit /\ [][ListNext]_vars

DoMasks ==
    /\ pc = "start"
    /\ got' = Masks(src)
    /\ pc' = "masked"
    /\ UNCHANGED <<src, opt, ast, perr, query, calls>>

MaskNext == DoMasks

MaskSpec == MaskInit /\ [][MaskNext]_vars

TypeOK ==
    /\ pc \in {"start", "parsed", "done", "masked"}
    /\ src \in Seq(STRING)
    /\ opt \in {InstallHandler(o) : o \in Options \cup HandlerOptions} \cup Options


----------------------------------------------------------------------------
(* Properties                                                              *)

RECURSIVE Count(_, _)
Count(s, c) ==
    IF s = <<>> THEN 0 ELSE (IF Head(s) = c THEN 1 ELSE 0) + Count(Tail(s), c)

\* the Term, Range and Boolean nodes of a parsed value, left to right
RECURSIVE NodesOf(_)
NodesOf(v) ==
    CASE v.type = "slice" ->
           Flatten([i \in 1..Len(v.items) |-> NodesOf(v.items[i])])
      [] v.type = "BooleanExpression" ->
           <<v>> \o Flatten([i \in 1..Len(v.Args) |-> NodesOf(v.Args[i])])
      [] v.type \in {"TermQuery", "RangeQuery"} -> <<v>>
      [] OTHER -> <<>>

Rendered == pc = "done" /\ query.err = ""

\* the values a Term or Range binds, in the order of its placeholders
BoundValues(n) ==
    IF n.type = "TermQuery"
    THEN (IF n.Value = NilV THEN <<>>
          ELSE IF n.Value.k = "wild"
          THEN (CASE WildKind(n.Value) = "prefix" -> <<StrV(n.Value.Prefix)>>
                  [] WildKind(n.Value) = "suffix" -> <<StrV(n.Value.Suffix)>>
                  [] WildKind(n.Value) = "between" ->
                       <<StrV(n.Value.Prefix), StrV(n.Value.Suffix)>>
                  [] WildKind(n.Value) = "any" -> <<StrV(n.Value.Term)>>
                  [] OTHER -> <<>>)
          ELSE IF n.Value = ListV(<<>>) THEN <<>>
          ELSE <<n.Value>>)
    ELSE IF n.type = "RangeQuery"
    THEN (IF HasMin(n) THEN <<n.Min>> ELSE <<>>)
           \o (IF HasMax(n) THEN <<n.Max>> ELSE <<>>)
    ELSE <<>>

ValuesInOrder(v) ==
    LET ns == NodesOf(v) IN Flatten([i \in 1..Len(ns) |-> BoundValues(ns[i])])

\* C1: in a query that was rendered without error, Query.sql holds as many
\* `?` as Query.args holds values, and the args are the values of the
\* terms in source order.
C1_PlaceholdersMatchArgs ==
    Rendered => /\ Count(query.Query, "?") = Len(query.Args)
                /\ query.Args = ValuesInOrder(ast)

\* the operator a single term is rendered with, as C2 states it
C2_Op(op) ==
    CASE op \in {"", "eq"} -> <<"=">>
      [] op = "neq" -> <<"<", ">">>
      [] op = "~" -> <<"~">>
      [] op = "~*" -> <<"~", "*">>
      [] op = "!~" -> <<"!", "~">>
      [] op = "!~*" -> <<"!", "~", "*">>

C2_Values == {x \in Scalars : x.text \in {<<"5">>, <<"b">>, Quote(<<"a", " ", "b">>)}}

\* C2: the single term `F: op V` is rendered as `F <mapped op> ?` with
\* args [V], the field name unchanged.
C2_SingleTermSQL ==
    \A f \in Names, e \in EqSpellings, v \in C2_Values :
        (pc = "done" /\ src = TermText(f, e.text, v.text))
            => /\ query.err = ""
               /\ query.Query = f \o sp \o C2_Op(e.op) \o sp \o PlaceHolder
               /\ query.Args = <<v.val>>

\* C3: Query.columns holds no column twice.
C3_ColumnsDistinct ==
    Rendered =>
        \A i, j \in 1..Len(query.Columns) :
            i # j => query.Columns[i] # query.Columns[j]


\* the three spellings of `f op v` parse to the same AST
SameRange(op, v) ==
    LET bracket == Parse(FieldText(<<"f">>) \o BracketText(op, v))
        word == Parse(FieldText(<<"f">>) \o WordText(op, v))
    IN  /\ perr = ""
        /\ bracket.err = "" /\ bracket.val = ast
        /\ word.err = "" /\ word.val = ast

IsNumberText(v) == DecimalOrIntExp(v, 1).ok /\ DecimalOrIntExp(v, 1).pos = Len(v) + 1

IsQuotedText(v) == QuotedTerm(v, 1).ok /\ QuotedTerm(v, 1).pos = Len(v) + 1

\* a bare identifier that begins with no number and no literal word
PlainIdentifier(v) ==
    /\ v # <<>>
    /\ \A i \in 1..Len(v) : TermChar(v[i])
    /\ v[1] \notin Digits
    /\ ~Lit(v, 1, sNull) /\ ~Lit(v, 1, sTrue) /\ ~Lit(v, 1, sFalse)

\* integers, decimals, quoted strings and bare identifiers
C4_Values == {v \in RangeValues : IsNumberText(v) \/ IsQuotedText(v) \/ PlainIdentifier(v)}

\* C4: for every scalar V (integer, decimal, quoted string, bare identifier,
\* boolean, null), `f: > V`, `f: {V TO *}` and `f: gt V` parse to the same
\* AST; likewise gte, lt, lte with their brackets.
C4_InequalityForms ==
    \A op \in Inequalities, v \in C4_Values \cup {sTrue, sFalse, sNull} :
        (pc = "parsed" /\ src = FieldText(<<"f">>) \o CompareText(op, v))
            => SameRange(op, v)

\* the three spellings agree on every value that is no boolean and no null
SameRangeOffLiterals ==
    \A op \in Inequalities, v \in C4_Values :
        (pc = "parsed" /\ src = FieldText(<<"f">>) \o CompareText(op, v))
            => SameRange(op, v) /\ ast.type = "RangeQuery" /\ ast.Term = <<"f">>

\* `f: "V"` and `f: V` both parse to the Term f = "V"
SameTerm(v) ==
    LET bare == Parse(FieldText(<<"f">>) \o v)
    IN  /\ perr = ""
        /\ ast = TermQuery(<<"f">>, "", "", StrV(v))
        /\ bare.err = "" /\ bare.val = ast

EqualityWords ==
    {<<">">>, <<"<">>, <<"!", "=">>, <<"g", "t">>, <<"l", "t">>, <<"e", "q">>,
     <<"n", "e", "q">>}

C5_Values ==
    {v \in BareValues : PlainIdentifier(v) /\ \A w \in EqualityWords : ~Lit(v, 1, w)}

TermNames(v, f) ==
    LET ns == SelectSeq(NodesOf(v), LAMBDA n : n.type = "TermQuery")
    IN  [i \in 1..Len(ns) |-> IF ns[i].Term = <<>> THEN f ELSE ns[i].Term]

\* C6: in the result of `F:(E)` every Term has the name F, except the Terms
\* that E names itself, which keep their name.
C6_FieldPropagation ==
    \A q \in BooleanQueries \cup TwoSidedRanges :
        (pc = "parsed" /\ perr = "" /\ src = <<"g", ":", "(">> \o q \o <<")">>)
            => TermNames(ast, <<>>)
                 = TermNames(Parse(<<"(">> \o q \o <<")">>).val, <<"g">>)

OtherMode(o) ==
    [o EXCEPT !.SearchMode = IF @ = "ANY" THEN "ALL" ELSE "ANY"]

\* s with every conjunction token AND replaced by OR; a token stands
\* between spaces, parentheses and the ends of s
RECURSIVE AndToOrFrom(_, _)
AndToOrFrom(s, i) ==
    IF i > Len(s) THEN <<>>
    ELSE IF /\ Lit(s, i, sAND)
            /\ (i = 1 \/ s[i - 1] \in {" ", "("})
            /\ (i + 3 > Len(s) \/ s[i + 3] \in {" ", ")"})
         THEN sOR \o AndToOrFrom(s, i + 3)
         ELSE <<s[i]>> \o AndToOrFrom(s, i + 1)

AndToOr(s) == AndToOrFrom(s, 1)

\* C7: ToSQL in the modes ANY and ALL fails in both or in neither, and
\* returns the same args, the same columns and, with AND read as OR, the
\* same SQL.
C7_SearchModeDuality ==
    (pc = "done" /\ perr = "") =>
        LET other == ToSQL(ast, OtherMode(opt))
        IN  /\ (query.err = "") = (other.err = "")
            /\ query.err = "" =>
                 /\ query.Args = other.Args
                 /\ query.Columns = other.Columns
                 /\ AndToOr(query.Query) = AndToOr(other.Query)

\* the conjunction between the children of a Boolean, as C8 states it
C8_Op(op, mode) ==
    CASE op = "AND" -> sAND
      [] op = "OR" -> sOR
      [] op = "NOT" -> (IF mode = "ANY" THEN sOR ELSE sAND) \o sp \o sNOT
      [] op = "IMPLICIT" -> (IF mode = "ANY" THEN sOR ELSE sAND)

RECURSIVE JoinWith(_, _)
JoinWith(texts, sep) ==
    IF Len(texts) <= 1 THEN Flatten(texts)
    ELSE Head(texts) \o sep \o JoinWith(Tail(texts), sep)

\* C8: a Boolean of unprefixed Terms, Ranges and Booleans is rendered as its
\* children's texts between parentheses, one mapped operator between two.
C8_BooleanJoin ==
    (/\ Rendered
     /\ ast.type = "BooleanExpression"
     /\ ast.Args # <<>>
     /\ \A i \in 1..Len(ast.Args) :
            /\ ast.Args[i].type \in {"TermQuery", "RangeQuery", "BooleanExpression"}
            /\ ast.Args[i].type = "TermQuery" => ast.Args[i].Prefix = "")
        => query.Query
             = <<"(">>
                 \o JoinWith([i \in 1..Len(ast.Args) |-> renderSQL(ast.Args[i], opt).Query],
                             sp \o C8_Op(ast.Op, opt.SearchMode) \o sp)
                 \o <<")">>

\* the text from i on is made of operator tokens and whitespace only
RECURSIVE OnlyOperatorTokens(_, _)
OnlyOperatorTokens(s, i) ==
    LET j == SkipWs(s, i)
        o == Operator(s, j)
    IN  \/ j > Len(s)
        \/ /\ o.ok
           /\ (o.pos > Len(s) \/ IsWs(s[o.pos]))
           /\ OnlyOperatorTokens(s, o.pos)

\* C9: no Boolean of a parsed query has an empty args list, unless the
\* query is made of operator tokens only.
C9_BooleanArgsNonEmpty ==
    (pc = "parsed" /\ perr = "" /\ ~OnlyOperatorTokens(src, 1)) =>
        \A i \in 1..Len(NodesOf(ast)) :
            NodesOf(ast)[i].type = "BooleanExpression" => NodesOf(ast)[i].Args # <<>>

\* C10: with a default field, ToSQL of a parsed query never fails with
\* `unknown range type`.
C10_RangeKindKnown ==
    (pc = "done" /\ perr = "" /\ opt.DefaultField # <<>>) =>
        query.err # "unknown range type"

IsScalar(v) == v.k \in {"int", "float", "str", "bool"}

\* C11: a single named Term with a scalar value and prefix `+` is rendered
\* as `F op ?`, with prefix `-` as `NOT F op ?`, in both search modes; the
\* conjunction the prefix put in front is gone and nothing else is changed.
C11_PrefixStripped ==
    (/\ Rendered
     /\ ast.type = "TermQuery"
     /\ ast.Term # <<>>
     /\ ast.Prefix \in {"+", "-"}
     /\ IsScalar(ast.Value))
        => /\ query.Query
                = (IF ast.Prefix = "-" THEN sNOT \o sp ELSE <<>>)
                    \o ast.Term \o sp \o C2_Op(ast.Op) \o sp \o PlaceHolder
           /\ query.Args = <<ast.Value>>

\* C12: for every query Q that parses and every run of operator tokens,
\* Parse(operators + ` ` + Q) returns what Parse(Q) returns.
C12_LeadingOperatorsDiscarded ==
    \A o \in OperatorRuns, q \in LedQueries :
        (pc = "parsed" /\ src = o \o sp \o q /\ Parse(q).err = "")
            => perr = "" /\ ast = Parse(q).val

C12_Witness ==
    /\ pc = "parsed"
    /\ src = sOR \o sp \o sAND \o sp \o <<"a", ":", "1", " ", "O", "R", " ", "b">>
    /\ ast = BooleanExpression("OR", <<TermQuery(<<"a">>, "", "", IntV(1)),
                                       TermQuery(<<>>, "", "", StrV(<<"b">>))>>)

\* C13: ToSQL is pure with respect to its inputs: a call of ToSQL leaves the
\* caller's options value and the AST as they were, so that calls sharing
\* one options value write to nothing shared.
C13_ToSQLPure == [][pc = "parsed" => (opt' = opt /\ ast' = ast)]_vars

\* the Term and Range nodes of a parsed value, left to right
Leaves(v) == SelectSeq(NodesOf(v), LAMBDA n : n.type \in {"TermQuery", "RangeQuery"})

\* the index of the first node of ls that is not rendered, 0 when all are
FirstFailing(ls, o) ==
    LET bad == {i \in 1..Len(ls) : renderSQL(ls[i], o).err # ""}
    IN  IF bad = {} THEN 0 ELSE CHOOSE i \in bad : \A j \in bad : i <= j

\* text t occurs in text s
Occurs(t, s) ==
    \E k \in 0..(Len(s) - Len(t)) : SubSeq(s, k + 1, k + Len(t)) = t

\* the first error ends the rendering: the handler is called for the nodes up
\* to the failing one and for no later node
C14_StopsAtFirstError ==
    (pc = "done" /\ perr = "" /\ query.err # "" /\ FirstFailing(Leaves(ast), opt) > 0)
        => LET ls == Leaves(ast)
               i == FirstFailing(ls, opt)
           IN  /\ calls = SubSeq(ls, 1, i)
               /\ query.err = renderSQL(ls[i], opt).err

\* C14: when a node fails, ToSQL stops at that first error, the handler is
\* called for no later node, and the Query returned with the error holds the
\* SQL text and the args of the nodes rendered before the failing one.
C14_PartialQuery ==
    (pc = "done" /\ perr = "" /\ query.err # "" /\ FirstFailing(Leaves(ast), opt) > 0)
        => LET ls == Leaves(ast)
               i == FirstFailing(ls, opt)
           IN  /\ calls = SubSeq(ls, 1, i)
               /\ query.Args = Flatten([j \in 1..(i - 1) |-> renderSQL(ls[j], opt).Args])
               /\ \A j \in 1..(i - 1) : Occurs(renderSQL(ls[j], opt).Query, query.Query)

\* v with the name f given to its Terms and Ranges that have none
RECURSIVE Named(_, _)
Named(v, f) ==
    CASE v.type = "slice" ->
           [v EXCEPT !.items = [i \in 1..Len(v.items) |-> Named(v.items[i], f)]]
      [] v.type = "BooleanExpression" ->
           [v EXCEPT !.Args = [i \in 1..Len(v.Args) |-> Named(v.Args[i], f)]]
      [] v.type \in {"TermQuery", "RangeQuery"} ->
           (IF v.Term = <<>> THEN [v EXCEPT !.Term = f] ELSE v)
      [] OTHER -> v

HasUnnamed(v) == \E i \in 1..Len(Leaves(v)) : Leaves(v)[i].Term = <<>>

\* C15: with the default column handler, a Term or Range without a name is
\* rendered as if it were named options.defaultField when that is not empty;
\* ToSQL fails with `term without a name` exactly when defaultField is empty
\* and the AST holds a Term or Range without a name, and the Query returned
\* then holds no text for that node.
C15_DefaultField ==
    (pc = "done" /\ perr = "")
        => /\ (opt.DefaultField # <<>> /\ HasUnnamed(ast))
                => LET q == ToSQL(Named(ast, opt.DefaultField), opt)
                   IN  /\ query.err = q.err
                       /\ query.Query = q.Query
                       /\ query.Args = q.Args
           /\ (query.err = "term without a name")
                <=> (opt.DefaultField = <<>> /\ HasUnnamed(ast))
           /\ (query.err = "term without a name")
                => LET ls == Leaves(ast)
                   IN  Len(query.Args)
                         <= Len(Flatten([j \in 1..(FirstFailing(ls, opt) - 1) |->
                                           renderSQL(ls[j], opt).Args]))

\* the clauses of HandlerClauses on the field `a`
AClauses == {c \in HandlerClauses : Len(c) >= 2 /\ c[1] = "a" /\ c[2] = ":"}

\* C16: the column handler is called once for every Term and Range, from left
\* to right; a node for which it returns a Fragment with a non-empty sql
\* contributes that sql and those args whatever its value, operator and
\* prefix are; and when it returns an error ToSQL fails with `invalid column`
\* and the name of the node.
C16_ColumnHandler ==
    /\ Rendered => calls = Leaves(ast)
    /\ (/\ Rendered /\ opt.ColumnHandler \in {"sql", "sqlOR"}
        /\ ast.type \in {"TermQuery", "RangeQuery"} /\ ast.Term = <<"a">>)
          => /\ query.Query = ColumnHandler(opt, ast).Query
             /\ query.Args = ColumnHandler(opt, ast).Args
    /\ \A c \in AClauses, k \in Connectives, d \in HandlerClauses :
          (pc = "done" /\ opt.ColumnHandler \in {"sql", "sqlOR"} /\ src = c \o k \o d)
             => query = ToSQLString(<<"a", ":", "1">> \o k \o d, opt)
    /\ \A c \in HandlerClauses, k \in Connectives, d \in AClauses :
          (pc = "done" /\ opt.ColumnHandler \in {"sql", "sqlOR"} /\ src = c \o k \o d)
             => query = ToSQLString(c \o k \o <<"a", ":", "1">>, opt)
    /\ (/\ pc = "done" /\ perr = "" /\ opt.ColumnHandler = "err"
        /\ FirstFailing(Leaves(ast), opt) > 0
        /\ Leaves(ast)[FirstFailing(Leaves(ast), opt)].Term = <<"a">>)
          => /\ query.err = "invalid column"
             /\ query.arg = <<"a">>

\* the same for a handler whose fragments begin with no operator word
C16_PlainFragment ==
    opt.ColumnHandler # "sqlOR" => C16_ColumnHandler

\* the paths of the children c, d of a group, each behind the segments of p
Distributed(p, cs) ==
    LET ps == Flatten([i \in 1..Len(cs) |-> Masks(cs[i]).val])
    IN  [i \in 1..Len(ps) |-> Masks(p).val[1] \o ps[i]]

\* C17: a group distributes over its children in source order: the paths of
\* `P(c1,...,cn)` are the paths of c1, ..., cn, each behind the segments of
\* P, and they are the paths of `P/c1,...,P/cn`.
C17_GroupsDistribute ==
    /\ \A p \in MaskKeys, c \in MaskChildren :
          (pc = "masked" /\ src = p \o <<"(">> \o c \o <<")">>)
             => /\ got = Masks(p \o <<"/">> \o c)
                /\ got.val = Distributed(p, <<c>>)
    /\ \A p \in MaskKeys, c \in MaskPairChildren, d \in MaskPairChildren :
          (pc = "masked" /\ src = p \o <<"(">> \o c \o <<",">> \o d \o <<")">>)
             => /\ got = Masks(p \o <<"/">> \o c \o <<",">> \o p \o <<"/">> \o d)
                /\ got.val = Distributed(p, <<c, d>>)

\* a text holds no quoted term with a space
NoQuotedSpace(t) == ~Occurs(<<" ">>, t)

\* groups distribute when no segment is quoted with a space in it
C17_DistributeOffQuotedSpace ==
    NoQuotedSpace(src) => C17_GroupsDistribute

\* C18: no segment of a path that Masks returns holds a space.
C18_NoSpaceInSegments ==
    pc = "masked"
        => \A i \in 1..Len(got.val) : \A j \in 1..Len(got.val[i]) :
              \A k \in 1..Len(got.val[i][j]) : got.val[i][j][k] # " "

\* the Range that C19 states for a term of name f, inequality op and value v
C19_Range(op, f, v) ==
    CASE op = "gt" -> RangeQuery(f, v, StrV(sStar), FALSE)
      [] op = "gte" -> RangeQuery(f, v, StrV(sStar), TRUE)
      [] op = "lt" -> RangeQuery(f, StrV(sStar), v, FALSE)
      [] op = "lte" -> RangeQuery(f, StrV(sStar), v, TRUE)

C20_OperatorKept ==
    (/\ Rendered
     /\ ast.type = "BooleanExpression"
     /\ ast.Op \in {"AND", "OR", "NOT"}
     /\ Len(ast.Args) = 2
     /\ \A i \in 1..2 : /\ ast.Args[i].type = "TermQuery"
                        /\ ast.Args[i].Term \in {<<>>, <<"a">>, <<"b">>}
     /\ ast.Args[1].Prefix = ""
     /\ ast.Args[2].Prefix \in {"+", "-"})
        => Lit(query.Query, 1,
               <<"(">> \o ToSQL(ast.Args[1], opt).Query \o sp
                 \o C8_Op(ast.Op, opt.SearchMode) \o sp)

\* the names of the Ranges of a parsed value, left to right, f for no name
RangeNames(v, f) ==
    LET ns == SelectSeq(NodesOf(v), LAMBDA n : n.type = "RangeQuery")
    IN  [i \in 1..Len(ns) |-> IF ns[i].Term = <<>> THEN f ELSE ns[i].Term]

\* C21: in the result of `F:(E)` every Range that E does not name has the
\* name F, so that no Term and no Range of the result is without a name.
C21_RangePropagation ==
    \A q \in BooleanQueries \cup TwoSidedRanges :
        (pc = "parsed" /\ perr = "" /\ src = <<"g", ":", "(">> \o q \o <<")">>)
            => /\ RangeNames(ast, <<>>)
                    = RangeNames(Parse(<<"(">> \o q \o <<")">>).val, <<"g">>)
               /\ \A i \in 1..Len(Leaves(ast)) : Leaves(ast)[i].Term # <<>>

\* the position at which Start ends on the text s
StartEnd(s) == NodePlus(s, WsStar(s, 1)).pos

\* C22: Parse succeeds only when the grammar has read the whole text: a query
\* followed by text that no rule matches gives an error, not the AST of the
\* query before that text.
C22_WholeInputRead ==
    /\ (pc = "parsed" /\ perr = "") => StartEnd(src) = Len(src) + 1
    /\ \A q \in Chains(1), t \in UnreadTails :
          (pc = "parsed" /\ src = q \o t) => perr # ""

\* the conjunction that the search mode chooses
ModeOp(mode) == IF mode = "ANY" THEN sOR ELSE sAND

\* C23: when the filter is a list of nodes, the texts of its elements stand in
\* Query.sql with the conjunction of the search mode between two of them,
\* never one directly behind the other, and Query.args holds the args of
\* the elements in order.
C23_ListJoined ==
    (/\ Rendered
     /\ ast.type = "slice"
     /\ Len(ast.items) >= 2
     /\ \A i \in 1..Len(ast.items) :
           /\ ast.items[i].type \in {"TermQuery", "RangeQuery"}
           /\ ast.items[i].Term \in {<<"a">>, <<"b">>}
           /\ ast.items[i].type = "TermQuery" => ast.items[i].Prefix = "")
        => /\ query.Query
                = JoinWith([i \in 1..Len(ast.items) |-> ToSQL(ast.items[i], opt).Query],
                           sp \o ModeOp(opt.SearchMode) \o sp)
           /\ query.Args
                = Flatten([i \in 1..Len(ast.items) |-> ToSQL(ast.items[i], opt).Args])

\* the args of a list are the args of its elements in order
C23_ListArgs ==
    (Rendered /\ ast.type = "slice")
        => query.Args
             = Flatten([i \in 1..Len(ast.items) |-> ToSQL(ast.items[i], opt).Args])

=============================================================================
